---- MODULE Spec2Model ----
(***************************************************************************)
(* ISA-PHM: the interactive questionnaire (describe_experiment.py) that    *)
(* builds experiment.json, and the template generator (create_template.py) *)
(* that reads it and builds the ISA investigation.                         *)
(*                                                                         *)
(* Text is modelled as a sequence of one-character strings, so that        *)
(* str.strip, str.lower, int() and datetime.fromisoformat are computed on  *)
(* the characters.  A Python reference to a mutable object is modelled as  *)
(* an address into a heap (or as the name of the global it refers to), so  *)
(* that aliasing is visible.                                               *)
(***************************************************************************)
EXTENDS Integers, Sequences, FiniteSets, TLC

VARIABLES
    pc,         \* position of the running function or script
    inputs,     \* the raw lines input() has returned so far, in order
    printed,    \* number of rejection messages printed by the prompt loops
    ret,        \* the value returned by the function under study
    PERSONS,                \* describe_experiment.py:7
    PUBLICATIONS,           \* describe_experiment.py:8
    TEST_SETUPS,            \* describe_experiment.py:9
    SENSOR_TO_FILE_DETAIL,  \* describe_experiment.py:10, identifier -> address
    heap,           \* the file-detail dicts, by address
    isa_phm_info,   \* describe_experiment.py:538
    study_objects,  \* describe_experiment.py:544
    cur,            \* the locals of the running describe_experiment call
    written,        \* what has been dumped to experiment.json, one entry per dump
    argv,           \* create_template.py: the flags given on the command line
    args,           \* create_template.py:642
    file,           \* the JSON document in the file args.file names
    TXT_ending,     \* create_template.py:85
    info,           \* create_template.py:608
    inv_obj,        \* create_template.py:609, the investigation being built
    outputs         \* the files main has written, in order

promptVars == <<pc, inputs, printed, ret>>
globalVars == <<PERSONS, PUBLICATIONS, TEST_SETUPS, SENSOR_TO_FILE_DETAIL, heap>>
scriptVars == <<isa_phm_info, study_objects, cur, written>>
templateVars == <<argv, args, file, TXT_ending, info, inv_obj, outputs>>
vars == <<promptVars, globalVars, scriptVars, templateVars>>

\* ------------------------------------------------------------------ bounds

\* Most lines a prompt loop reads before the model stops following it.
MaxPrompts == 3
\* Most test setups held by TEST_SETUPS.
MaxSetups == 2

\* ------------------------------------------------------------------ text

Last(s) == s[Len(s)]

WHITESPACE == {" ", "\t", "\n"}

UPPER == [c \in {"Y", "E", "S", "N", "O", "T", "X"} |->
            CASE c = "Y" -> "y" [] c = "E" -> "e" [] c = "S" -> "s"
              [] c = "N" -> "n" [] c = "O" -> "o" [] c = "T" -> "t"
              [] c = "X" -> "x"]

\* str.lower()
lower(s) == [i \in 1..Len(s) |-> IF s[i] \in DOMAIN UPPER THEN UPPER[s[i]] ELSE s[i]]

RECURSIVE lstrip(_)
lstrip(s) == IF s # <<>> /\ s[1] \in WHITESPACE THEN lstrip(Tail(s)) ELSE s

RECURSIVE rstrip(_)
rstrip(s) ==
    IF s # <<>> /\ Last(s) \in WHITESPACE THEN rstrip(SubSeq(s, 1, Len(s) - 1)) ELSE s

\* str.strip()
strip(s) == rstrip(lstrip(s))

DIGIT == [c \in {"0", "1", "2", "3", "4", "5", "6", "7", "8", "9"} |->
            CASE c = "0" -> 0 [] c = "1" -> 1 [] c = "2" -> 2 [] c = "3" -> 3
              [] c = "4" -> 4 [] c = "5" -> 5 [] c = "6" -> 6 [] c = "7" -> 7
              [] c = "8" -> 8 [] c = "9" -> 9]

AllDigits(s) == \A i \in 1..Len(s) : s[i] \in DOMAIN DIGIT

RECURSIVE DecimalValue(_)
DecimalValue(s) ==
    IF s = <<>> THEN 0 ELSE 10 * DecimalValue(SubSeq(s, 1, Len(s) - 1)) + DIGIT[Last(s)]

\* int(text): surrounding whitespace is allowed, then an optional sign and
\* one or more decimal digits; anything else raises ValueError.
IntBody(s) == IF s # <<>> /\ s[1] \in {"+", "-"} THEN Tail(s) ELSE s
IntParses(s) == IntBody(strip(s)) # <<>> /\ AllDigits(IntBody(strip(s)))
IntValue(s) ==
    IF strip(s)[1] = "-" THEN 0 - DecimalValue(IntBody(strip(s)))
    ELSE DecimalValue(IntBody(strip(s)))

\* ------------------------------------------------- datetime.fromisoformat

IsLeap(y) == (y % 4 = 0 /\ y % 100 # 0) \/ y % 400 = 0
DaysInMonth(y, m) ==
    IF m = 2 THEN (IF IsLeap(y) THEN 29 ELSE 28)
    ELSE IF m \in {4, 6, 9, 11} THEN 30 ELSE 31

\* YYYY-MM-DD
DateParses(s) ==
    /\ Len(s) = 10
    /\ s[5] = "-" /\ s[8] = "-"
    /\ AllDigits(SubSeq(s, 1, 4)) /\ AllDigits(SubSeq(s, 6, 7))
    /\ AllDigits(SubSeq(s, 9, 10))
    /\ LET y == DecimalValue(SubSeq(s, 1, 4))
           m == DecimalValue(SubSeq(s, 6, 7))
           d == DecimalValue(SubSeq(s, 9, 10))
       IN  y >= 1 /\ m \in 1..12 /\ d >= 1 /\ d <= DaysInMonth(y, m)

\* HH:MM:SS
TimeParses(s) ==
    /\ Len(s) = 8
    /\ s[3] = ":" /\ s[6] = ":"
    /\ AllDigits(SubSeq(s, 1, 2)) /\ AllDigits(SubSeq(s, 4, 5))
    /\ AllDigits(SubSeq(s, 7, 8))
    /\ DecimalValue(SubSeq(s, 1, 2)) <= 23
    /\ DecimalValue(SubSeq(s, 4, 5)) <= 59
    /\ DecimalValue(SubSeq(s, 7, 8)) <= 59

\* datetime.fromisoformat(text) does not raise: a calendar date, alone or
\* followed by one separator character (any character) and a time of day.
fromisoformat(s) ==
    \/ DateParses(s)
    \/ /\ Len(s) = 19
       /\ DateParses(SubSeq(s, 1, 10))
       /\ TimeParses(SubSeq(s, 12, 19))

\* -------------------------------------------------------- initial state

\* The module-level globals as lines 7-10 leave them.
InitGlobals ==
    /\ PERSONS = <<>>
    /\ PUBLICATIONS = <<>>
    /\ TEST_SETUPS = <<>>
    /\ SENSOR_TO_FILE_DETAIL = <<>>
    /\ heap = <<>>

\* The locals of describe_experiment before the call has assigned them.
NoCur ==
    [used_setup |-> 0, title |-> <<>>, has_publication |-> FALSE, contacts |-> "None",
     experiment_type |-> "", operating_conditions |-> <<>>, runs |-> <<>>]

\* The main script before its first statement.
InitScript ==
    /\ isa_phm_info = <<>>
    /\ study_objects = <<>>
    /\ cur = NoCur
    /\ written = <<>>
    \* create_template.py is not running
    /\ argv = [tab |-> FALSE, json |-> FALSE]
    /\ args = [tab |-> FALSE, json |-> FALSE]
    /\ file = <<>>
    /\ TXT_ending = FALSE
    /\ info = <<>>
    /\ inv_obj = <<>>
    /\ outputs = <<>>

\* ------------------------------------------------------- yes_no_question

YES == {<<"y">>, <<"y", "e", "s">>}
NO == {<<"n">>, <<"n", "o">>}

\* The lines a user may type at a y/n prompt.
YesNoLines ==
    { <<"y">>, <<"Y">>, <<"y", "e", "s">>, <<" ", "Y", "E", "S", "\n">>,
      <<"n">>, <<"N", "o", " ">>, <<"n", "o">>,
      <<>>, <<"y", "e">>, <<"x">>, <<" ">>, <<"n", " ", "o">> }

\* yes_no_question with the answer compared as typed (no trimming, no
\* lowercasing).
yes_no_step_raw(line) ==
    /\ inputs' = Append(inputs, line)
    /\ IF line \in YES
       THEN pc' = "returned" /\ ret' = "True" /\ printed' = printed
       ELSE IF line \in NO
       THEN pc' = "returned" /\ ret' = "False" /\ printed' = printed
       ELSE pc' = "yes_no_question" /\ ret' = ret /\ printed' = printed + 1

\* One pass of the while loop of yes_no_question: read a line, return on a
\* valid answer, print the reminder and stay in the loop otherwise.
yes_no_step(line) ==
    LET answer == lower(strip(line))
    IN  /\ inputs' = Append(inputs, line)
        /\ IF answer \in YES
           THEN pc' = "returned" /\ ret' = "True" /\ printed' = printed
           ELSE IF answer \in NO
           THEN pc' = "returned" /\ ret' = "False" /\ printed' = printed
           ELSE pc' = "yes_no_question" /\ ret' = ret /\ printed' = printed + 1

YesNoRead ==
    /\ pc = "yes_no_question"
    /\ Len(inputs) < MaxPrompts
    /\ \E line \in YesNoLines : yes_no_step(line)
    /\ UNCHANGED <<globalVars, scriptVars, templateVars>>

InitYesNo ==
    /\ pc = "yes_no_question"
    /\ inputs = <<>>
    /\ printed = 0
    /\ ret = "None"
    /\ InitGlobals
    /\ InitScript

NextYesNo == YesNoRead

SpecYesNo == InitYesNo /\ [][NextYesNo]_vars

\* The answer yes_no_question compares: the line trimmed and lowercased.
Normal(line) == lower(strip(line))

\* C3: yes_no_question returns True only when the last line read, trimmed and
\* lowercased, is 'y' or 'yes', and False only when it is 'n' or 'no'; every
\* other line is answered with the reminder and another prompt, never with a
\* return; and it returns at the first valid line, so no line is read after
\* a valid one and a run in which a valid line was read has returned.
YesNoKeepsPrompting ==
    /\ pc = "returned" <=> ret \in {"True", "False"}
    /\ ret = "True" => inputs # <<>> /\ Normal(Last(inputs)) \in YES
    /\ ret = "False" => inputs # <<>> /\ Normal(Last(inputs)) \in NO
    /\ \A i \in 1..Len(inputs) :
          Normal(inputs[i]) \in YES \cup NO => i = Len(inputs) /\ pc = "returned"
    /\ pc # "returned" => printed = Len(inputs)

\* Two rejected lines, then ' YES' with surrounding whitespace and capitals.
YesNoWitness ==
    /\ pc = "returned" /\ ret = "True" /\ printed = 2 /\ Len(inputs) = 3
    /\ Last(inputs) = <<" ", "Y", "E", "S", "\n">>

\* ----------------------------------------------------- get_date_question

\* The lines a user may type at a date prompt.
DateLines ==
    { <<"2", "0", "2", "3", "-", "0", "6", "-", "0", "1">>,
      <<" ", "2", "0", "2", "4", "-", "0", "2", "-", "2", "9", "\n">>,
      <<"2", "0", "2", "3", "-", "0", "6", "-", "0", "1", "T",
        "1", "2", ":", "0", "0", ":", "0", "0">>,
      <<"2", "0", "2", "3", "-", "0", "2", "-", "2", "9">>,
      <<"2", "0", "2", "3", "-", "1", "3", "-", "0", "1">>,
      <<"2", "0", "2", "3", "-", "0", "6", "-", "0", "1", "T",
        "2", "5", ":", "0", "0", ":", "0", "0">>,
      <<"0", "1", "-", "0", "6", "-", "2", "0", "2", "3">>,
      <<"2", "0", "2", "3", "-", "6", "-", "1">>,
      <<"2", "0", "2", "3", "-", "0", "6", "-", "0", "1", " ", "x">>,
      <<>>, <<"x">> }

\* get_date_question returning the line as typed instead of the answer it
\* parsed.
get_date_step_raw(line) ==
    LET anwser == lower(strip(line))
    IN  /\ inputs' = Append(inputs, line)
        /\ IF fromisoformat(anwser)
           THEN pc' = "returned" /\ ret' = line /\ printed' = printed
           ELSE pc' = "get_date_question" /\ ret' = ret /\ printed' = printed + 1

\* One pass of the while loop of get_date_question.
get_date_step(line) ==
    LET anwser == lower(strip(line))
    IN  /\ inputs' = Append(inputs, line)
        /\ IF fromisoformat(anwser)
           THEN pc' = "returned" /\ ret' = anwser /\ printed' = printed
           ELSE pc' = "get_date_question" /\ ret' = ret /\ printed' = printed + 1

DateRead ==
    /\ pc = "get_date_question"
    /\ Len(inputs) < MaxPrompts
    /\ \E line \in DateLines : get_date_step(line)
    /\ UNCHANGED <<globalVars, scriptVars, templateVars>>

InitDate ==
    /\ pc = "get_date_question"
    /\ inputs = <<>>
    /\ printed = 0
    /\ ret = <<>>
    /\ InitGlobals
    /\ InitScript

NextDate == DateRead

SpecDate == InitDate /\ [][NextDate]_vars

\* C4: the value get_date_question returns is the trimmed, lowercased text of
\* the last line read and parses as an ISO 8601 date; a line that does not
\* parse is answered with a re-prompt and is never the line returned.
DateKeepsPrompting ==
    /\ pc = "returned" =>
          /\ inputs # <<>>
          /\ ret = Normal(Last(inputs))
          /\ fromisoformat(ret)
    /\ \A i \in 1..Len(inputs) :
          fromisoformat(Normal(inputs[i])) <=> (i = Len(inputs) /\ pc = "returned")
    /\ pc # "returned" => printed = Len(inputs) /\ ret = <<>>

\* Two rejected lines (30 February, month 13 or other), then a leap day typed
\* with surrounding whitespace.
DateWitness ==
    /\ pc = "returned" /\ printed = 2
    /\ inputs[1] = <<"2", "0", "2", "3", "-", "0", "2", "-", "2", "9">>
    /\ ret = <<"2", "0", "2", "4", "-", "0", "2", "-", "2", "9">>
    /\ Last(inputs) # ret

\* ----------------------------------------------------- questionnaire data

\* Sensors entered for each test setup.
MaxSensors == 1
\* Most experiments described.
MaxExperiments == 2
\* Most runs entered for one experiment.
MaxRuns == 2

DIGITS == <<"0", "1", "2", "3", "4", "5", "6", "7", "8", "9">>

\* str(n), n >= 0
RECURSIVE str(_)
str(n) == IF n < 10 THEN <<DIGITS[n + 1]>> ELSE str(n \div 10) \o <<DIGITS[(n % 10) + 1]>>

\* d[k] = v on a dict
SetKey(d, k, v) == (k :> v) @@ d

\* A JSON value that may be null: a list, or None.
JList(items) == [kind |-> "list", items |-> items]
JNull == [kind |-> "null", items |-> <<>>]

\* What the user types.  Answers that only fill in a field are fixed; the
\* answers that decide a branch or a loop count are drawn from these sets.
Ann == [first_name |-> "Ann", roles |-> <<>>, comments |-> 0]
Bob == [first_name |-> "Bob", roles |-> <<"author">>, comments |-> 1]
InvestigationInputs ==
    { [change |-> FALSE, publication |-> FALSE, contacts |-> <<>>],
      [change |-> TRUE, publication |-> TRUE, contacts |-> <<Ann>>] }
SetupNames == {<<"A">>, <<"B">>}
\* The names a setup can be given: the first setup is called A, a later one
\* has that name again or the other one.
SetupNamesFor(setups) == IF setups = <<>> THEN {<<"A">>} ELSE SetupNames
\* The answers for the sensor entered at position index: the first sensor's
\* data is processed, the second one's is not, and so on.
SensorInput(index) ==
    IF index % 2 = 0
    THEN [sampling_unit |-> "", location_unit |-> "m", orientation_unit |-> "deg",
          steps |-> 1]
    ELSE [sampling_unit |-> "", location_unit |-> "", orientation_unit |-> "",
          steps |-> 0]
\* The contacts entered after declining the displayed list.
AddedContacts == { <<>>, <<Bob>> }
\* The answers for the k-th experiment that fill in its title and decide
\* its publication, type and operating conditions.
ExperimentInput(k) ==
    IF k % 2 = 0
    THEN [title |-> <<"e", "x", "p">> \o str(k), publication |-> FALSE,
          experiment_type |-> "Diagnostic", conditions |-> <<"speed">>]
    ELSE [title |-> <<"e", "x", "p">> \o str(k), publication |-> TRUE,
          experiment_type |-> "Degradation-c", conditions |-> <<>>]
\* The file name typed for the k-th run of an experiment.
FileName(k) == <<"r", "u", "n">> \o str(k)

a_comment == [name |-> "note", value |-> "text"]
Comments(n) == [i \in 1..n |-> a_comment]

\* The dict ask_for_contact_details builds (lines 118-128).
contact_dict(in) ==
    [first_name |-> in.first_name, last_name |-> "Doe", mid_initials |-> "",
     email |-> "mail", phone |-> "", address |-> "", affiliation |-> "lab",
     roles |-> in.roles, comments |-> Comments(in.comments)]

\* The dict ask_for_publication_details builds (lines 62-81).
publication_dict ==
    [title |-> "paper", doi |-> "10.1/x", status |-> "published",
     author_list |-> "Doe, A", comments |-> Comments(1)]

\* The dict ask_for_characteristic returns (lines 193-198): the value of the
\* last comment overwrites the characteristic's value (line 190).
characteristic_dict(ncomments) ==
    [category |-> "motor", value |-> IF ncomments > 0 THEN "text" ELSE "ac",
     unit |-> "", comments |-> Comments(ncomments)]

\* One entry of f_parameters (lines 234-244).
file_parameter_dict ==
    [parameter |-> [parameter_name |-> "filter", comments |-> <<>>],
     value |-> [value |-> "5", unit |-> "Hz", comments |-> <<>>]]

\* The dict file_details returns (lines 246-250).
file_details(in) ==
    [file_parameters |-> [i \in 1..in.steps |-> file_parameter_dict],
     number_of_columns |-> 1, labels |-> <<"time">>]

\* f"Sensor_{index}_{name}" (line 260)
sensor_identifier(index, name) ==
    <<"S", "e", "n", "s", "o", "r", "_">> \o str(index) \o <<"_">> \o name

\* The dict ask_for_sensor_details returns (lines 282-301): at most one of the
\* three optional units is kept.
sensor_dict(index, name, in) ==
    LET sensor ==
          [identifier |-> sensor_identifier(index, name),
           measurement_type |-> "vibration", measurement_unit |-> "g",
           description |-> "", technology_type |-> "accelerometer",
           technology_platform |-> "", data_acquisition_unit |-> "daq",
           sampling_rate |-> "100", sensor_location |-> "top",
           sensor_orientation |-> "x"]
    IN  IF in.sampling_unit # "" THEN SetKey(sensor, "sampling_unit", in.sampling_unit)
        ELSE IF in.location_unit # ""
        THEN SetKey(sensor, "location_unit", in.location_unit)
        ELSE IF in.orientation_unit # ""
        THEN SetKey(sensor, "orientation_unit", in.orientation_unit)
        ELSE sensor

\* The dict ask_for_operating_condition returns (lines 434-438).
operating_condition_dict(name) == [name |-> name, value |-> "10", unit |-> "rpm"]

\* -------------------------------------------------- questionnaire actions

\* describe_investigation (lines 134-172), with the calls it makes:
\* ask_for_publication_details appends to PUBLICATIONS and every
\* ask_for_contact_details appends to PERSONS.
DescribeInvestigation ==
    /\ pc = "describe_investigation"
    /\ \E in \in InvestigationInputs :
          LET pub == in.publication
              contacts == [i \in 1..Len(in.contacts) |-> contact_dict(in.contacts[i])]
              IsaPhmInfo ==
                  [identifier |-> IF in.change THEN "typed-id" ELSE "i-uuid4",
                   title |-> "inv", description |-> "about",
                   submission_date |-> "2023-06-01",
                   public_release_date |-> "2023-06-02",
                   contacts |-> contacts]
          IN  /\ isa_phm_info' =
                    IF pub THEN SetKey(IsaPhmInfo, "publication", publication_dict)
                    ELSE IsaPhmInfo
              /\ PUBLICATIONS' =
                    IF pub THEN Append(PUBLICATIONS, publication_dict) ELSE PUBLICATIONS
              /\ PERSONS' = PERSONS \o contacts
    /\ pc' = "describe_test_setup"
    /\ UNCHANGED <<inputs, printed, ret, TEST_SETUPS, SENSOR_TO_FILE_DETAIL, heap,
                   study_objects, cur, written, templateVars>>

\* describe_test_setup (lines 309-342), with ask_for_sensor_details storing
\* the file details of each sensor under its identifier (line 304).
DescribeTestSetup ==
    /\ pc = "describe_test_setup"
    /\ \E name \in SetupNamesFor(TEST_SETUPS), n \in {MaxSensors} :
          LET sins == [i \in 1..n |-> SensorInput(i - 1)]
              chars == [i \in 1..n |-> i % 2]
              sensors == [i \in 1..Len(sins) |-> sensor_dict(i - 1, name, sins[i])]
              ids == { sensors[i].identifier : i \in 1..Len(sins) }
          IN  /\ heap' = heap \o [i \in 1..Len(sins) |-> file_details(sins[i])]
              /\ SENSOR_TO_FILE_DETAIL' =
                    [id \in DOMAIN SENSOR_TO_FILE_DETAIL \cup ids |->
                        IF id \in ids
                        THEN Len(heap) + (CHOOSE i \in 1..Len(sins) :
                                             sensors[i].identifier = id)
                        ELSE SENSOR_TO_FILE_DETAIL[id]]
              /\ TEST_SETUPS' = Append(TEST_SETUPS,
                    [name |-> name, location |-> "hall",
                     characteristics |->
                        [i \in 1..Len(chars) |-> characteristic_dict(chars[i])],
                     number_of_sensors |-> Len(sensors),
                     sensors |-> sensors])
    /\ pc' = "more_test_setups"
    /\ UNCHANGED <<inputs, printed, ret, PERSONS, PUBLICATIONS, scriptVars, templateVars>>

\* Line 541, answered yes: the loop body describes another test setup.
AnotherTestSetup ==
    /\ pc = "more_test_setups"
    /\ Len(TEST_SETUPS) < MaxSetups
    /\ pc' = "describe_test_setup"
    /\ UNCHANGED <<inputs, printed, ret, globalVars, scriptVars, templateVars>>

\* Line 541, answered no; lines 543-544.
NoMoreTestSetups ==
    /\ pc = "more_test_setups"
    /\ pc' = "describe_experiment"
    /\ study_objects' = <<>>
    /\ UNCHANGED <<inputs, printed, ret, globalVars, isa_phm_info, cur, written, templateVars>>

\* get_contacts_for_experiment (lines 345-358): the PERSONS list itself when
\* the user confirms it; otherwise each contact entered is appended to
\* PERSONS twice (by ask_for_contact_details, line 130, and by line 358) and
\* the function falls off its end.
get_contacts_for_experiment(confirm, added) ==
    IF confirm
    THEN [ret |-> "PERSONS", PERSONS |-> PERSONS]
    ELSE [ret |-> "None",
          PERSONS |-> PERSONS \o
              [i \in 1..(2 * Len(added)) |-> contact_dict(added[(i + 1) \div 2])]]

\* The setups get_test_setup_for_experiment can return (lines 361-385), as
\* Python indices into TEST_SETUPS.
SelectableSetups == 0..(Len(TEST_SETUPS) - 1)

\* describe_experiment up to its run loop (lines 484-511).  The early return
\* of line 486 cannot happen: line 540 has added a test setup.
BeginExperiment ==
    /\ pc = "describe_experiment"
    /\ Len(TEST_SETUPS) # 0
    /\ \E used_setup \in SelectableSetups, confirm \in BOOLEAN,
          added \in AddedContacts :
          LET in == ExperimentInput(Len(study_objects))
              title == in.title
              pub == in.publication
              type == in.experiment_type
              conds == in.conditions
              got == get_contacts_for_experiment(confirm, added)
          IN  /\ confirm => added = <<>>
              /\ inputs' = Append(inputs, title)
              /\ PUBLICATIONS' =
                    IF pub THEN Append(PUBLICATIONS, publication_dict) ELSE PUBLICATIONS
              /\ PERSONS' = got.PERSONS
              /\ cur' = [used_setup |-> used_setup, title |-> title,
                         has_publication |-> pub, contacts |-> got.ret,
                         experiment_type |-> type,
                         operating_conditions |->
                            [i \in 1..Len(conds) |-> operating_condition_dict(conds[i])],
                         runs |-> <<>>]
    /\ pc' = "runs"
    /\ UNCHANGED <<printed, ret, TEST_SETUPS, SENSOR_TO_FILE_DETAIL, heap,
                   isa_phm_info, study_objects, written, templateVars>>

\* ask_for_run with a_file bound to the stored dict itself, not to a copy.
deepcopy_shared(h, addr) == [heap |-> h, addr |-> addr]

\* deepcopy (line 449): a new object, equal to the one at addr.
deepcopy(h, addr) == [heap |-> Append(h, h[addr]), addr |-> Len(h) + 1]

\* The for loop of ask_for_run (lines 448-470) over the sensors left, from
\* heap h and the assay details built so far.
RECURSIVE ask_for_run_loop(_, _, _, _)
ask_for_run_loop(h, sensors, file_name, assay_details) ==
    IF sensors = <<>> THEN [heap |-> h, assay_details |-> assay_details]
    ELSE LET sensor == Head(sensors)
             copy == deepcopy(h, SENSOR_TO_FILE_DETAIL[sensor.identifier])
             a_file == copy.addr
             raw == SetKey(SetKey(copy.heap[a_file], "raw_file_name", file_name),
                           "raw_file_location", "/raw")
             done == IF raw.file_parameters # <<>>
                     THEN SetKey(SetKey(raw, "proccesed_file_name", file_name),
                                 "proccesed_file_location", "/processed")
                     ELSE raw
         IN  ask_for_run_loop([copy.heap EXCEPT ![a_file] = done], Tail(sensors),
                              file_name,
                              Append(assay_details,
                                     [used_sensor |-> sensor, file_details |-> a_file]))

\* ask_for_run (lines 441-475): the run dict and the heap it leaves.
ask_for_run(setup, operating_conditions, file_name) ==
    LET loop == ask_for_run_loop(heap, setup.sensors, file_name, <<>>)
    IN  [heap |-> loop.heap,
         run |-> [run_conditions |-> operating_conditions,
                  assay_details |-> loop.assay_details]]

\* Line 512 answered yes, and line 514.
AskForRun ==
    /\ pc = "runs"
    /\ Len(cur.runs) < MaxRuns
    /\ \E file_name \in {FileName(Len(cur.runs))} :
          LET got == ask_for_run(TEST_SETUPS[cur.used_setup + 1],
                                 cur.operating_conditions, file_name)
          IN  /\ heap' = got.heap
              /\ cur' = [cur EXCEPT !.runs = Append(@, got.run)]
    /\ UNCHANGED <<promptVars, PERSONS, PUBLICATIONS, TEST_SETUPS,
                   SENSOR_TO_FILE_DETAIL, isa_phm_info, study_objects, written, templateVars>>

\* The StudyInfo dict of lines 516-532.  contacts holds what
\* get_contacts_for_experiment returned, used_setup the chosen element of
\* TEST_SETUPS.
StudyInfo_dict(c) ==
    LET StudyInfo ==
          [title |-> c.title, description |-> "what", submission_date |-> "2023-06-01",
           public_release_date |-> "2023-06-02", detail_preparation |-> "seeded",
           contacts |-> c.contacts, experiment_type |-> c.experiment_type,
           fault_type |-> "crack", fault_position |-> "inner", fault_severity |-> "2",
           runs |-> c.runs, used_setup |-> c.used_setup]
    IN  IF c.has_publication THEN SetKey(StudyInfo, "publication", publication_dict)
        ELSE StudyInfo

\* study_objects.append(x) with x put in front.
append_study_front(objects, StudyInfo) == <<StudyInfo>> \o objects

\* study_objects.append(describe_experiment()) (lines 545, 547)
append_study(objects, StudyInfo) == Append(objects, StudyInfo)

\* Line 512 answered no: describe_experiment returns its StudyInfo (lines
\* 516-533) and the script appends it to study_objects.
EndExperiment ==
    /\ pc = "runs"
    /\ study_objects' = append_study(study_objects, StudyInfo_dict(cur))
    /\ cur' = NoCur
    /\ pc' = "more_experiments"
    /\ UNCHANGED <<inputs, printed, ret, globalVars, isa_phm_info, written, templateVars>>

\* Line 546 answered yes.
AnotherExperiment ==
    /\ pc = "more_experiments"
    /\ Len(study_objects) < MaxExperiments
    /\ pc' = "describe_experiment"
    /\ UNCHANGED <<inputs, printed, ret, globalVars, scriptVars, templateVars>>

\* Line 546 answered no; line 548.
NoMoreExperiments ==
    /\ pc = "more_experiments"
    /\ pc' = "save"
    /\ UNCHANGED <<inputs, printed, ret, globalVars, scriptVars, templateVars>>

\* json.dump of a run: the file details are written out by value.
run_json(run) ==
    [run_conditions |-> run.run_conditions,
     assay_details |->
        [i \in 1..Len(run.assay_details) |->
            [used_sensor |-> run.assay_details[i].used_sensor,
             file_details |-> heap[run.assay_details[i].file_details]]]]

\* json.dump of a StudyInfo dict: the contacts are the list PERSONS holds
\* now, or null for None; the setup is written out by value.
study_json(StudyInfo) ==
    [k \in DOMAIN StudyInfo |->
        CASE k = "contacts" ->
                IF StudyInfo.contacts = "PERSONS" THEN JList(PERSONS) ELSE JNull
          [] k = "used_setup" -> TEST_SETUPS[StudyInfo.used_setup + 1]
          [] k = "runs" -> [i \in 1..Len(StudyInfo.runs) |-> run_json(StudyInfo.runs[i])]
          [] OTHER -> StudyInfo[k]]

\* json.dump(isa_phm_info) (line 554) after line 551 has set study_details
\* to the list study_objects.
dump(data, objects) ==
    [k \in DOMAIN data \cup {"study_details"} |->
        CASE k = "contacts" -> JList(data.contacts)
          [] k = "study_details" -> [i \in 1..Len(objects) |-> study_json(objects[i])]
          [] OTHER -> data[k]]

\* Lines 551-554.
Save ==
    /\ pc = "save"
    /\ written' = Append(written, dump(isa_phm_info, study_objects))
    /\ pc' = "done"
    /\ UNCHANGED <<inputs, printed, ret, globalVars, isa_phm_info, study_objects, cur, templateVars>>

InitQuestionnaire ==
    /\ pc = "describe_investigation"
    /\ inputs = <<>>
    /\ printed = 0
    /\ ret = "None"
    /\ InitGlobals
    /\ InitScript

NextQuestionnaire ==
    \/ DescribeInvestigation
    \/ DescribeTestSetup
    \/ AnotherTestSetup
    \/ NoMoreTestSetups
    \/ BeginExperiment
    \/ AskForRun
    \/ EndExperiment
    \/ AnotherExperiment
    \/ NoMoreExperiments
    \/ Save

SpecQuestionnaire == InitQuestionnaire /\ [][NextQuestionnaire]_vars

\* ------------------------------------------- create_info on experiment.json
\* Each json_to_X below is TRUE when the function of that name completes on
\* the JSON value without raising: X(**data) needs every key of data to be a
\* parameter of X, data[k] needs the key, and a comprehension needs a list.

\* dict.get(key, default)
get(data, key, default) == IF key \in DOMAIN data THEN data[key] ELSE default

CommentFields == {"name", "value"}
PersonFields ==
    {"last_name", "first_name", "mid_initials", "email", "phone", "fax", "address",
     "affiliation", "roles", "comments", "id_"}
PublicationFields == {"pubmed_id", "doi", "author_list", "title", "status", "comments"}
CharacteristicFields == {"category", "value", "unit", "comments"}
ProtocolParameterFields == {"id_", "parameter_name", "comments"}
\* ParameterValue(**vdata, category=p): category is passed by the caller.
ParameterValueFields == {"value", "unit", "comments"}
FileDetailsFields ==
    {"raw_file_name", "raw_file_location", "proccesed_file_name",
     "proccesed_file_location", "file_parameters", "number_of_columns", "labels"}
SensorFields ==
    {"identifier", "measurement_type", "measurement_unit", "description",
     "technology_type", "technology_platform", "data_acquisition_unit",
     "sampling_rate", "sampling_unit", "sensor_location", "location_unit",
     "sensor_orientation", "orientation_unit"}
TestSetUpFields == {"name", "location", "characteristics", "number_of_sensors", "sensors"}
AssayInfoFields == {"used_sensor", "file_details"}
RunInfoFields == {"run_conditions", "assay_details"}
StudyInfoFields ==
    {"title", "description", "submission_date", "public_release_date",
     "detail_preparation", "publication", "contacts", "experiment_type",
     "used_setup", "fault_type", "fault_position", "fault_severity", "runs"}
IsaPhmInfoFields ==
    {"identifier", "title", "description", "submission_date", "public_release_date",
     "publication", "contacts", "study_details"}

All(list, ok(_)) == \A i \in 1..Len(list) : ok(list[i])

json_to_comment(data) == DOMAIN data \subseteq CommentFields

json_to_person(data) ==
    /\ All(get(data, "comments", <<>>), json_to_comment)
    /\ DOMAIN data \cup {"comments", "roles"} \subseteq PersonFields

\* data.get("publication", None) is passed in as a list of zero or one dict.
json_to_publication(data) ==
    data = <<>> \/
        /\ All(get(data[1], "comments", <<>>), json_to_comment)
        /\ DOMAIN data[1] \cup {"comments", "status"} \subseteq PublicationFields

json_to_characteristic(data) ==
    /\ All(get(data, "comments", <<>>), json_to_comment)
    /\ DOMAIN data \cup {"comments"} \subseteq CharacteristicFields

json_to_file_parameter(data) ==
    /\ {"parameter", "value"} \subseteq DOMAIN data
    /\ All(get(data, "comments", <<>>), json_to_comment)
    /\ DOMAIN data.parameter \cup {"comments"} \subseteq ProtocolParameterFields
    /\ DOMAIN data.value \cup {"comments"} \subseteq ParameterValueFields

json_to_file_details(data) ==
    /\ All(get(data, "file_parameters", <<>>), json_to_file_parameter)
    /\ DOMAIN data \cup {"file_parameters"} \subseteq FileDetailsFields

json_to_sensor(data) == DOMAIN data \subseteq SensorFields

json_to_assay_info(data) ==
    /\ json_to_file_details(get(data, "file_details", <<>>))
    /\ json_to_sensor(get(data, "used_sensor", <<>>))
    /\ DOMAIN data \cup {"file_details", "used_sensor"} \subseteq AssayInfoFields

\* data.get("used_setup", None) is passed in as a list of zero or one dict;
\* None has no get.
json_to_test_setup(data) ==
    /\ data # <<>>
    /\ All(get(data[1], "characteristics", <<>>), json_to_characteristic)
    /\ All(get(data[1], "sensors", <<>>), json_to_sensor)
    /\ DOMAIN data[1] \cup {"characteristics", "sensors"} \subseteq TestSetUpFields

json_to_factor_value(data) == {"name", "value"} \subseteq DOMAIN data

json_to_run_info(data) ==
    /\ All(get(data, "run_conditions", <<>>), json_to_factor_value)
    /\ All(get(data, "assay_details", <<>>), json_to_assay_info)
    /\ DOMAIN data \cup {"run_conditions", "assay_details"} \subseteq RunInfoFields

\* [f(c) for c in contacts]: iterating None raises TypeError.
json_to_contacts(contacts) ==
    /\ contacts.kind = "list"
    /\ All(contacts.items, json_to_person)

Optional(data, key) == IF key \in DOMAIN data THEN <<data[key]>> ELSE <<>>

json_to_study_info(data) ==
    /\ json_to_publication(Optional(data, "publication"))
    /\ json_to_contacts(get(data, "contacts", JList(<<>>)))
    /\ json_to_test_setup(Optional(data, "used_setup"))
    /\ All(get(data, "runs", <<>>), json_to_run_info)
    /\ DOMAIN data \cup {"publication", "contacts", "used_setup", "runs"}
          \subseteq StudyInfoFields

json_to_isa_phm_info(data) ==
    /\ json_to_publication(Optional(data, "publication"))
    /\ json_to_contacts(get(data, "contacts", JList(<<>>)))
    /\ All(get(data, "study_details", <<>>), json_to_study_info)
    /\ DOMAIN data \cup {"publication", "contacts", "study_details"}
          \subseteq IsaPhmInfoFields

\* ------------------------------------------------- questionnaire: claims

\* C1: whatever the user answers, the document the questionnaire writes to
\* experiment.json is one json_to_isa_phm_info completes on without raising.
QuestionnaireWritesValidInput ==
    \A i \in 1..Len(written) : json_to_isa_phm_info(written[i])

\* C2: on every path get_contacts_for_experiment returns the list of
\* contacts: once it has returned, the contacts of the experiment being
\* described are the PERSONS list, never None.
ContactsListReturned == pc = "runs" => cur.contacts = "PERSONS"

\* The written document is valid whenever every experiment in it got its
\* contacts on the confirming path.
ValidWhenContactsConfirmed ==
    \A i \in 1..Len(written) :
        (\A j \in 1..Len(study_objects) : study_objects[j].contacts = "PERSONS")
            => json_to_isa_phm_info(written[i])

\* The titles of the studies of a written document, in its order.
Titles(doc) == [i \in 1..Len(doc.study_details) |-> doc.study_details[i].title]

\* One step of the script keeps the order: a test setup is added only
\* before the first experiment is begun and only once the investigation has
\* been described, the investigation record is set only before the first
\* test setup, and nothing is described or written after the dump.
OrderedStep ==
    /\ isa_phm_info' # isa_phm_info =>
          isa_phm_info = <<>> /\ TEST_SETUPS = <<>> /\ inputs = <<>>
    /\ TEST_SETUPS' # TEST_SETUPS =>
          isa_phm_info # <<>> /\ inputs = <<>> /\ study_objects = <<>>
    /\ inputs' # inputs => isa_phm_info # <<>> /\ TEST_SETUPS # <<>>
    /\ written' # written =>
          /\ written = <<>> /\ Len(written') = 1
          /\ isa_phm_info # <<>> /\ TEST_SETUPS # <<>> /\ study_objects # <<>>
          /\ Len(study_objects) = Len(inputs)
    /\ written # <<>> => UNCHANGED vars

\* C6: the script describes the investigation first, then one or more test
\* setups, then one or more experiments, and dumps experiment.json exactly
\* once, after all of these; the dumped document is the investigation record
\* with study_details holding the experiments in the order in which they
\* were described (inputs logs the titles typed, in order).
MainFlowOrdered ==
    /\ [][OrderedStep]_vars
    /\ [](pc = "done" <=> Len(written) = 1)
    /\ [](written # <<>> =>
            /\ \A k \in DOMAIN isa_phm_info \ {"contacts"} :
                   written[1][k] = isa_phm_info[k]
            /\ written[1].contacts = JList(isa_phm_info.contacts)
            /\ DOMAIN written[1] = DOMAIN isa_phm_info \cup {"study_details"}
            /\ Titles(written[1]) = inputs)

\* Two test setups and two experiments, written in the order described.
MainFlowWitness ==
    /\ pc = "done" /\ Len(TEST_SETUPS) = 2
    /\ "publication" \in DOMAIN written[1]
    /\ Titles(written[1]) = <<<<"e", "x", "p", "0">>, <<"e", "x", "p", "1">>>>

\* The addresses SENSOR_TO_FILE_DETAIL holds.
Stored == { SENSOR_TO_FILE_DETAIL[id] : id \in DOMAIN SENSOR_TO_FILE_DETAIL }

\* The file details of the run at position index of its experiment are an
\* object of their own, holding the stored dict's entries and the file names
\* typed for that run.
RunHasOwnFileDetails(run, index) ==
    \A i \in 1..Len(run.assay_details) :
       LET a == run.assay_details[i]
           stored == heap[SENSOR_TO_FILE_DETAIL[a.used_sensor.identifier]]
           a_file == heap[a.file_details]
       IN  /\ a.file_details \notin Stored
           /\ a_file.raw_file_name = FileName(index)
           /\ \A k \in DOMAIN stored : a_file[k] = stored[k]
           /\ a_file.file_parameters # <<>> =>
                 a_file.proccesed_file_name = FileName(index)

\* C10: ask_for_run leaves SENSOR_TO_FILE_DETAIL unchanged.  Whatever runs
\* have been entered, the file details stored for every sensor are the dict
\* file_details() returned for it; the file details of every run are an
\* object of their own, which holds that dict's entries and the file names
\* typed for that very run, whatever runs were described after it.
RunsLeaveStoredFileDetails ==
    /\ \A s \in 1..Len(TEST_SETUPS) : \A i \in 1..Len(TEST_SETUPS[s].sensors) :
          LET id == TEST_SETUPS[s].sensors[i].identifier
          IN  /\ id \in DOMAIN SENSOR_TO_FILE_DETAIL
              /\ heap[SENSOR_TO_FILE_DETAIL[id]] = file_details(SensorInput(i - 1))
    /\ \A j \in 1..Len(cur.runs) : RunHasOwnFileDetails(cur.runs[j], j - 1)
    /\ \A e \in 1..Len(study_objects) : \A j \in 1..Len(study_objects[e].runs) :
          RunHasOwnFileDetails(study_objects[e].runs[j], j - 1)

\* Two runs of one experiment on a sensor whose data is processed, written
\* out with the file names of each.
RunsWitness ==
    /\ pc = "done"
    /\ \E i \in 1..Len(study_objects) :
          /\ Len(study_objects[i].runs) = 2
          /\ LET fd(j) == heap[study_objects[i].runs[j].assay_details[1].file_details]
             IN  /\ fd(1).proccesed_file_name = FileName(0)
                 /\ fd(2).proccesed_file_name = FileName(1)
                 /\ fd(1).file_parameters = fd(2).file_parameters

\* ------------------------------------------ get_test_setup_for_experiment

\* The lines a user may type when asked for the number of a test setup.
ChoiceLines ==
    { <<"1">>, <<"2">>, <<" ", "2", "\n">>, <<"+", "1">>, <<"3">>, <<"4">>,
      <<"0">>, <<"-", "1">>, <<"x">>, <<>>, <<"2", ".", "0">> }

\* The loop of get_test_setup_for_experiment accepting 0 as a choice:
\* TEST_SETUPS[-1] is the last setup.
get_test_setup_step_from_zero(line) ==
    /\ inputs' = Append(inputs, line)
    /\ IF IntParses(line) /\ 0 <= IntValue(line) /\ IntValue(line) <= Len(TEST_SETUPS)
       THEN /\ ret' = <<(IntValue(line) - 1) % Len(TEST_SETUPS)>>
            /\ pc' = "returned" /\ printed' = printed
       ELSE pc' = "choose_setup" /\ ret' = ret /\ printed' = printed + 1

\* One pass of the while loop of get_test_setup_for_experiment (lines
\* 374-384): int() raising and a number out of range both print a message
\* and prompt again.  ret holds used_setup as a Python index into
\* TEST_SETUPS, <<>> while it is None.
get_test_setup_step(line) ==
    /\ inputs' = Append(inputs, line)
    /\ IF IntParses(line) /\ 1 <= IntValue(line) /\ IntValue(line) <= Len(TEST_SETUPS)
       THEN pc' = "returned" /\ ret' = <<IntValue(line) - 1>> /\ printed' = printed
       ELSE pc' = "choose_setup" /\ ret' = ret /\ printed' = printed + 1

\* describe_experiment calls get_test_setup_for_experiment (lines 484-487,
\* 366-372): a single setup is returned at once, several are listed.
EnterGetTestSetup ==
    /\ pc = "describe_experiment"
    /\ Len(TEST_SETUPS) # 0
    /\ IF Len(TEST_SETUPS) = 1
       THEN pc' = "returned" /\ ret' = <<0>>
       ELSE pc' = "choose_setup" /\ ret' = <<>>
    /\ UNCHANGED <<inputs, printed, globalVars, scriptVars, templateVars>>

ChoiceRead ==
    /\ pc = "choose_setup"
    /\ Len(inputs) < MaxPrompts
    /\ \E line \in ChoiceLines : get_test_setup_step(line)
    /\ UNCHANGED <<globalVars, scriptVars, templateVars>>

InitSetup ==
    /\ pc = "describe_investigation"
    /\ inputs = <<>>
    /\ printed = 0
    /\ ret = <<>>
    /\ InitGlobals
    /\ InitScript

\* The script up to the first statement of describe_experiment, then
\* get_test_setup_for_experiment line by line.
NextSetup ==
    \/ DescribeInvestigation
    \/ DescribeTestSetup
    \/ AnotherTestSetup
    \/ NoMoreTestSetups
    \/ EnterGetTestSetup
    \/ ChoiceRead

SpecSetup == InitSetup /\ [][NextSetup]_vars

\* A line get_test_setup_for_experiment accepts: an integer c, 1 <= c <= n.
Acceptable(line) ==
    IntParses(line) /\ 1 <= IntValue(line) /\ IntValue(line) <= Len(TEST_SETUPS)

\* C5: with exactly one setup get_test_setup_for_experiment returns it
\* without prompting; with n > 1 setups it returns TEST_SETUPS[c - 1] for the
\* first line that is an integer c with 1 <= c <= n, and answers every other
\* line with a message and a new prompt; what it returns is always an
\* element of TEST_SETUPS.
SetupSelected ==
    /\ pc = "returned" =>
          /\ Len(ret) = 1 /\ ret[1] \in 0..(Len(TEST_SETUPS) - 1)
          /\ Len(TEST_SETUPS) = 1 => ret = <<0>> /\ inputs = <<>>
          /\ Len(TEST_SETUPS) > 1 =>
                inputs # <<>> /\ IntParses(Last(inputs))
                /\ ret = <<IntValue(Last(inputs)) - 1>>
    /\ \A i \in 1..Len(inputs) :
          Acceptable(inputs[i]) <=> (i = Len(inputs) /\ pc = "returned")
    /\ pc = "choose_setup" => printed = Len(inputs) /\ ret = <<>>

\* Two setups; '0' and '3' are rejected, then ' 2' selects the second one.
SetupWitness ==
    /\ pc = "returned" /\ Len(TEST_SETUPS) = 2 /\ ret = <<1>>
    /\ inputs = << <<"0">>, <<"3">>, <<" ", "2", "\n">> >>
    /\ TEST_SETUPS[1].name # TEST_SETUPS[2].name

\* ------------------------------------------------ template generator data

\* str(n) for any integer
pystr(n) == IF n < 0 THEN <<"-">> \o str(0 - n) ELSE str(n)

EndsWith(text, suffix) ==
    /\ Len(text) >= Len(suffix)
    /\ SubSeq(text, Len(text) - Len(suffix) + 1, Len(text)) = suffix

TXT == <<"t", "x", "t">>
JSON == <<"j", "s", "o", "n">>

\* ("txt" if TXT_ending else "json"), lines 406, 544, 583
ending(txt_ending) == IF txt_ending THEN TXT ELSE JSON

\* The studies of the input documents: their type, whether they have a
\* publication, how many runs, and how many assays every run has besides
\* those of the setup's sensors, each with a sensor of its own that is not a
\* sensor of the test setup.
StudyInputs ==
    { [experiment_type |-> "Diagnostic", publication |-> FALSE, runs |-> n,
       stray |-> 0] : n \in 0..MaxRuns }
    \cup
    { [experiment_type |-> "Degradation-c", publication |-> TRUE, runs |-> n,
       stray |-> 1] : n \in 0..MaxRuns }
    \cup
    { [experiment_type |-> "Degradation-c", publication |-> FALSE, runs |-> n,
       stray |-> 2] : n \in 1..MaxRuns }

SeqsUpTo(S, n) == UNION { [1..k -> S] : k \in 0..n }

\* The run conditions of run j of an input document: one or two operating
\* conditions, with values no other run has.
run_conditions_input(j) ==
    [c \in 1..(1 + (j % 2)) |->
        [name |-> IF c = 1 THEN "speed" ELSE "load", value |-> str(10 * j + c),
         unit |-> "rpm"]]

\* The file details ask_for_run leaves for a sensor (lines 455-465).
file_details_input(in, file_name) ==
    LET raw == SetKey(SetKey(file_details(in), "raw_file_name", file_name),
                      "raw_file_location", "/raw")
    IN  IF raw.file_parameters # <<>>
        THEN SetKey(SetKey(raw, "proccesed_file_name", file_name),
                    "proccesed_file_location", "/processed")
        ELSE raw

test_setup_input ==
    [name |-> <<"A">>, location |-> "hall",
     characteristics |-> <<characteristic_dict(1)>>,
     number_of_sensors |-> MaxSensors,
     sensors |-> [i \in 1..MaxSensors |-> sensor_dict(i - 1, <<"A">>, SensorInput(i - 1))]]

run_input(j, stray) ==
    [run_conditions |-> run_conditions_input(j),
     assay_details |->
        [i \in 1..MaxSensors |->
            [used_sensor |-> test_setup_input.sensors[i],
             file_details |-> file_details_input(SensorInput(i - 1), FileName(j))]]
        \o [s \in 1..stray |->
              [used_sensor |-> sensor_dict(s - 1, <<"B">>, SensorInput(s - 1)),
               file_details |-> file_details_input(SensorInput(s - 1), FileName(j))]]]

\* Study k of an input document, in the shape study_json writes.
study_input(k, in) ==
    LET StudyInfo ==
          [title |-> <<"e", "x", "p">> \o str(k), description |-> "what",
           submission_date |-> "2023-06-01", public_release_date |-> "2023-06-02",
           detail_preparation |-> "seeded",
           contacts |-> JList(<<contact_dict(Bob)>>),
           experiment_type |-> in.experiment_type,
           fault_type |-> "crack", fault_position |-> "inner", fault_severity |-> "2",
           runs |-> [j \in 1..in.runs |-> run_input(j - 1, in.stray)],
           used_setup |-> test_setup_input]
    IN  IF in.publication THEN SetKey(StudyInfo, "publication", publication_dict)
        ELSE StudyInfo

\* An input document, in the shape dump writes.
InputDocument(in, studies) ==
    LET IsaPhmInfo ==
          [identifier |-> IF in.change THEN "typed-id" ELSE "i-uuid4",
           title |-> "inv", description |-> "about",
           submission_date |-> "2023-06-01", public_release_date |-> "2023-06-02",
           contacts |->
              JList([i \in 1..Len(in.contacts) |-> contact_dict(in.contacts[i])]),
           study_details |-> [k \in 1..Len(studies) |-> study_input(k - 1, studies[k])]]
    IN  IF in.publication THEN SetKey(IsaPhmInfo, "publication", publication_dict)
        ELSE IsaPhmInfo

InputDocuments ==
    { InputDocument(in, studies) :
        in \in InvestigationInputs, studies \in SeqsUpTo(StudyInputs, MaxExperiments) }

\* ------------------------------------------------- JSON to typed records

Map(list, f(_)) == [i \in 1..Len(list) |-> f(list[i])]

\* OntologyAnnotation(term)
OntologyAnnotation(term) == [term |-> term]

\* json_to_person (lines 207-213)
to_Person(data) ==
    SetKey(SetKey(data, "comments", get(data, "comments", <<>>)),
           "roles", Map(get(data, "roles", <<>>), OntologyAnnotation))

\* json_to_publication (lines 216-224), None being the empty list
to_Publication(data) ==
    IF data = <<>> THEN <<>>
    ELSE <<SetKey(SetKey(data[1], "comments", get(data[1], "comments", <<>>)),
                  "status", OntologyAnnotation(get(data[1], "status", "")))>>

\* json_to_characteristic (lines 227-232)
to_Characteristic(data) == SetKey(data, "comments", get(data, "comments", <<>>))

\* json_to_sensor (lines 266-270) into the Sensor dataclass (lines 109-127)
to_Sensor(data) ==
    [f \in SensorFields |-> get(data, f, IF f = "identifier" THEN <<"s", "0">> ELSE "")]

\* json_to_file_details (lines 257-263) into FileDetails (lines 94-106);
\* a file parameter is kept as its parameter and its value.
to_FileDetails(data) ==
    [raw_file_name |-> get(data, "raw_file_name", <<>>),
     raw_file_location |-> get(data, "raw_file_location", ""),
     proccesed_file_name |-> get(data, "proccesed_file_name", <<>>),
     proccesed_file_location |-> get(data, "proccesed_file_location", ""),
     file_parameters |-> get(data, "file_parameters", <<>>),
     number_of_columns |-> get(data, "number_of_columns", 0),
     labels |-> get(data, "labels", <<>>)]

\* json_to_assay_info (lines 273-279)
to_AssayInfo(data) ==
    [used_sensor |-> to_Sensor(get(data, "used_sensor", <<>>)),
     file_details |-> to_FileDetails(get(data, "file_details", <<>>))]

\* json_to_test_setup (lines 282-289) into TestSetUp (lines 130-140)
to_TestSetUp(data) ==
    [name |-> get(data, "name", <<>>), location |-> get(data, "location", ""),
     characteristics |-> Map(get(data, "characteristics", <<>>), to_Characteristic),
     number_of_sensors |-> get(data, "number_of_sensors", 0),
     sensors |-> Map(get(data, "sensors", <<>>), to_Sensor)]

\* json_to_factor_value (lines 292-302)
to_FactorValue(data) ==
    [factor_name |-> [name |-> data.name,
                      factor_type |-> Map(Optional(data, "factor_type"), OntologyAnnotation)],
     value |-> data.value,
     unit |-> Map(Optional(data, "unit"), OntologyAnnotation)]

\* json_to_run_info (lines 305-313)
to_RunInfo(data) ==
    [run_conditions |-> Map(get(data, "run_conditions", <<>>), to_FactorValue),
     assay_details |-> Map(get(data, "assay_details", <<>>), to_AssayInfo)]

\* json_to_study_info (lines 316-324) into StudyInfo (lines 162-180)
to_StudyInfo(data) ==
    [title |-> get(data, "title", <<>>), description |-> get(data, "description", ""),
     submission_date |-> get(data, "submission_date", ""),
     public_release_date |-> get(data, "public_release_date", ""),
     detail_preparation |-> get(data, "detail_preparation", ""),
     publication |-> to_Publication(Optional(data, "publication")),
     contacts |-> Map(get(data, "contacts", JList(<<>>)).items, to_Person),
     experiment_type |-> get(data, "experiment_type", ""),
     used_setup |-> to_TestSetUp(data.used_setup),
     fault_type |-> get(data, "fault_type", ""),
     fault_position |-> get(data, "fault_position", ""),
     fault_severity |-> get(data, "fault_severity", ""),
     runs |-> Map(get(data, "runs", <<>>), to_RunInfo)]

\* json_to_isa_phm_info (lines 327-335) into IsaPhmInfo (lines 183-197)
to_IsaPhmInfo(data) ==
    [identifier |-> get(data, "identifier", "i0"), title |-> get(data, "title", ""),
     description |-> get(data, "description", ""),
     submission_date |-> get(data, "submission_date", ""),
     public_release_date |-> get(data, "public_release_date", ""),
     publication |-> to_Publication(Optional(data, "publication")),
     contacts |-> Map(get(data, "contacts", JList(<<>>)).items, to_Person),
     study_details |-> Map(get(data, "study_details", <<>>), to_StudyInfo)]

\* ------------------------------------------------------ create_isa_data

RECURSIVE Flatten(_)
Flatten(lists) == IF lists = <<>> THEN <<>> ELSE Head(lists) \o Flatten(Tail(lists))

\* batch_create_materials(material, n) of isatools: n deep copies of the
\* material, named material.name-0, -1, ...
batch_create_materials(material, n) ==
    [x \in 1..n |-> [material EXCEPT !.name = @ \o <<"-">> \o str(x - 1)]]

\* The loop of lines 386-387 extending the first sample every time.
add_run_conditions_to_first(samples, runs) ==
    [i \in 1..Len(samples) |->
        IF i = 1
        THEN [samples[i] EXCEPT !.factor_values =
                 @ \o Flatten([j \in 1..Len(runs) |-> runs[j].run_conditions])]
        ELSE samples[i]]

\* The loop of lines 386-387: the run conditions of run i are appended to
\* the factor values of sample i.
add_run_conditions(samples, runs) ==
    [i \in 1..Len(samples) |->
        [samples[i] EXCEPT !.factor_values = @ \o runs[i].run_conditions]]

\* The factor values of the sample before the copies are made (lines 370-382).
fault_factor_values(study_info) ==
    IF study_info.experiment_type # "Diagnostic"
    THEN << [factor_name |-> [name |-> "Fault Type",
                              factor_type |-> study_info.experiment_type],
             value |-> study_info.fault_type],
            [factor_name |-> [name |-> "Fault Position",
                              factor_type |-> study_info.experiment_type],
             value |-> study_info.fault_position],
            [factor_name |-> [name |-> "Fault Severity",
                              factor_type |-> study_info.experiment_type],
             value |-> study_info.fault_severity] >>
    ELSE <<>>

\* add_test_setup (lines 357-387)
add_test_setup(study, study_info) ==
    LET source == [name |-> study_info.used_setup.name]
        sample == [name |-> <<study_info.fault_type, "_", study_info.fault_position,
                              "_", study_info.fault_severity>>,
                   derives_from |-> <<source>>,
                   characteristics |-> study_info.used_setup.characteristics,
                   factor_values |-> fault_factor_values(study_info)]
    IN  [study EXCEPT
            !.sources = Append(@, source),
            !.samples = add_run_conditions(
                           batch_create_materials(sample, Len(study_info.runs)),
                           study_info.runs)]

\* test_setup.sensors.index(sensor), -1 on ValueError (lines 399-402)
sensor_index(test_setup, sensor) ==
    LET sensors == test_setup.sensors
    IN  IF \E i \in 1..Len(sensors) : sensors[i] = sensor
        THEN (CHOOSE i \in 1..Len(sensors) :
                 sensors[i] = sensor /\ \A j \in 1..(i - 1) : sensors[j] # sensor) - 1
        ELSE 0 - 1

\* The filename of lines 403-406.
assay_filename(s_index, si, r_index, txt_ending) ==
    <<"a", "_", "a", "s", "s", "a", "y", "_", "s", "t">> \o pystr(s_index)
    \o <<"_", "s", "e">> \o pystr(si) \o <<"_", "r", "u", "n">> \o pystr(r_index)
    \o <<".">> \o ending(txt_ending)

\* create_assay_data (lines 390-490): the assay it returns, with the names
\* of the protocols it appends to the study.  The sample is held as its
\* index in study.samples.
create_assay_data(assay_info, sample, s_index, r_index, test_setup, txt_ending) ==
    LET sensor == assay_info.used_sensor
        fd == assay_info.file_details
        processed == fd.file_parameters # <<>>
    IN  [filename |-> assay_filename(s_index, sensor_index(test_setup, sensor),
                                     r_index, txt_ending),
         measurement_type |-> OntologyAnnotation(sensor.measurement_type),
         technology_type |-> OntologyAnnotation(sensor.technology_type),
         technology_platform |-> sensor.technology_platform,
         protocols |-> IF processed THEN <<"data collection", "data transformation">>
                       ELSE <<"data collection">>,
         data_files |-> IF processed THEN <<fd.raw_file_name, fd.proccesed_file_name>>
                        ELSE <<fd.raw_file_name>>,
         samples |-> <<sample>>]

\* f"s{index + 1}"
study_identifier_from_one(index) == <<"s">> \o pystr(index + 1)

\* f"s{index}" (line 546)
study_identifier(index) == <<"s">> \o pystr(index)

\* create_study_data (lines 538-574)
create_study_data(study_info, index, txt_ending) ==
    LET study ==
          [filename |-> <<"s", "_", "s", "t", "u", "d", "y", "_", "s">> \o pystr(index)
                        \o <<".">> \o ending(txt_ending),
           title |-> study_info.title,
           identifier |-> study_identifier(index),
           description |-> study_info.description,
           submission_date |-> study_info.submission_date,
           public_release_date |-> study_info.public_release_date,
           publications |-> study_info.publication,
           contacts |-> study_info.contacts,
           design_descriptors |-> <<OntologyAnnotation(study_info.experiment_type)>>,
           sources |-> <<>>, samples |-> <<>>]
        designed == add_test_setup(study, study_info)
        f_type == IF study_info.experiment_type = "Diagnostic" THEN "Fault" ELSE "Load"
        assays ==
          Flatten([r \in 1..Len(study_info.runs) |->
              [a \in 1..Len(study_info.runs[r].assay_details) |->
                  create_assay_data(study_info.runs[r].assay_details[a], r - 1, index,
                                    r - 1, study_info.used_setup, txt_ending)]])
    IN  [k \in DOMAIN designed \cup {"factors", "protocols", "assays"} |->
            CASE k = "factors" ->
                    << [name |-> "Fault Type", factor_type |-> f_type],
                       [name |-> "Fault Position", factor_type |-> f_type],
                       [name |-> "Fault Severity", factor_type |-> f_type] >>
              [] k = "protocols" ->
                    <<study_info.detail_preparation>>
                    \o Flatten([a \in 1..Len(assays) |-> assays[a].protocols])
              [] k = "assays" -> assays
              [] OTHER -> designed[k]]

\* ------------------------------------------- template generator actions

\* parser.parse_args() (lines 632-642): -t is off unless given, -j is on
\* whether given or not (store_true with default=True).
parse_args(flags) == [tab |-> flags.tab, json |-> IF flags.json THEN TRUE ELSE TRUE]

\* Lines 631-643.
ParseArgs ==
    /\ pc = "parse_args"
    /\ args' = parse_args(argv)
    /\ pc' = "main"
    /\ UNCHANGED <<inputs, printed, ret, globalVars, scriptVars,
                   argv, file, TXT_ending, info, inv_obj, outputs>>

\* main, lines 605-608.
MainCreateInfo ==
    /\ pc = "main"
    /\ TXT_ending' = IF args.tab THEN TRUE ELSE TXT_ending
    /\ info' = to_IsaPhmInfo(file)
    /\ pc' = "create_isa_data"
    /\ UNCHANGED <<inputs, printed, ret, globalVars, scriptVars,
                   argv, args, file, inv_obj, outputs>>

\* create_isa_data up to its loop (lines 581-593).
CreateInvestigation ==
    /\ pc = "create_isa_data"
    /\ inv_obj' =
          [filename |-> <<"i", "_", "i", "n", "v", "e", "s", "t", "i", "g", "a", "t",
                          "i", "o", "n", ".">> \o ending(TXT_ending),
           identifier |-> info.identifier, title |-> info.title,
           description |-> info.description,
           submission_date |-> info.submission_date,
           public_release_date |-> info.public_release_date,
           publications |-> IF info.publication # <<>> THEN info.publication ELSE <<>>,
           contacts |-> info.contacts,
           studies |-> <<>>]
    /\ pc' = "studies"
    /\ UNCHANGED <<inputs, printed, ret, globalVars, scriptVars,
                   argv, args, file, TXT_ending, info, outputs>>

\* One pass of the loop of lines 594-596.
CreateStudy ==
    /\ pc = "studies"
    /\ Len(inv_obj.studies) < Len(info.study_details)
    /\ LET i == Len(inv_obj.studies)
       IN  inv_obj' = [inv_obj EXCEPT !.studies =
                          Append(@, create_study_data(info.study_details[i + 1], i,
                                                      TXT_ending))]
    /\ UNCHANGED <<promptVars, globalVars, scriptVars,
                   argv, args, file, TXT_ending, info, outputs>>

\* The loop is over: line 597, back in main at line 609.
ReturnInvestigation ==
    /\ pc = "studies"
    /\ Len(inv_obj.studies) = Len(info.study_details)
    /\ pc' = "output"
    /\ UNCHANGED <<inputs, printed, ret, globalVars, scriptVars, templateVars>>

\* The files of one study in ISA-JSON: the study, then each of its assays
\* (lines 619-628).
json_files(study) ==
    <<[format |-> "json", filename |-> study.filename]>>
    \o [a \in 1..Len(study.assays) |->
           [format |-> "json", filename |-> study.assays[a].filename]]

\* The ISA-Tab files isatools writes (lines 612-614): a table per study, a
\* table per assay, and the investigation file; isatab.dump writes the
\* tables once more under the same names.
tab_files(inv) ==
    [i \in 1..Len(inv.studies) |-> [format |-> "tab", filename |-> inv.studies[i].filename]]
    \o Flatten([i \in 1..Len(inv.studies) |->
          [a \in 1..Len(inv.studies[i].assays) |->
              [format |-> "tab", filename |-> inv.studies[i].assays[a].filename]]])
    \o <<[format |-> "tab",
          filename |-> <<"i", "_", "i", "n", "v", "e", "s", "t", "i", "g", "a", "t",
                         "i", "o", "n", ".", "t", "x", "t">>]>>

\* main, lines 611-628.
WriteOutput ==
    /\ pc = "output"
    /\ outputs' =
          IF args.tab THEN tab_files(inv_obj)
          ELSE IF args.json
          THEN <<[format |-> "json", filename |-> inv_obj.filename]>>
               \o Flatten([i \in 1..Len(inv_obj.studies) |-> json_files(inv_obj.studies[i])])
          ELSE <<>>
    /\ pc' = "exit"
    /\ UNCHANGED <<inputs, printed, ret, globalVars, scriptVars,
                   argv, args, file, TXT_ending, info, inv_obj>>

\* python create_template.py [-t] [-j] file, the file holding a document
\* json_to_isa_phm_info completes on.
InitTemplate ==
    /\ pc = "parse_args"
    /\ inputs = <<>>
    /\ printed = 0
    /\ ret = "None"
    /\ InitGlobals
    /\ isa_phm_info = <<>>
    /\ study_objects = <<>>
    /\ cur = NoCur
    /\ written = <<>>
    /\ argv \in [tab : BOOLEAN, json : BOOLEAN]
    /\ args = [tab |-> FALSE, json |-> FALSE]
    /\ file \in { doc \in InputDocuments : json_to_isa_phm_info(doc) }
    /\ TXT_ending = FALSE
    /\ info = <<>>
    /\ inv_obj = <<>>
    /\ outputs = <<>>

NextTemplate ==
    \/ ParseArgs
    \/ MainCreateInfo
    \/ CreateInvestigation
    \/ CreateStudy
    \/ ReturnInvestigation
    \/ WriteOutput

SpecTemplate == InitTemplate /\ [][NextTemplate]_vars

\* ------------------------------------------------ template generator claims

Built == pc \in {"output", "exit"}

AssaysOf(inv) == Flatten([i \in 1..Len(inv.studies) |-> inv.studies[i].assays])

\* The files that exist once every write is done: a later write under a name
\* replaces the earlier file of that name.
FilesOnDisk == { outputs[i].filename : i \in 1..Len(outputs) }

\* The output is ISA-Tab when -t was given (with or without -j) and ISA-JSON
\* otherwise, never both, and every filename assigned ends accordingly.
OutputFormatByFlag ==
    pc = "exit" =>
        LET fmt == IF argv.tab THEN "tab" ELSE "json"
            ext == IF argv.tab THEN TXT ELSE JSON
        IN  /\ outputs # <<>>
            /\ \A i \in 1..Len(outputs) : outputs[i].format = fmt
            /\ EndsWith(inv_obj.filename, ext)
            /\ \A i \in 1..Len(inv_obj.studies) : EndsWith(inv_obj.studies[i].filename, ext)
            /\ \A a \in 1..Len(AssaysOf(inv_obj)) : EndsWith(AssaysOf(inv_obj)[a].filename, ext)

\* In JSON mode there is a file for the investigation, one for every study
\* and one for every assay of every study.
OneFilePerObject ==
    (pc = "exit" /\ ~argv.tab) =>
        Cardinality(FilesOnDisk) = 1 + Len(inv_obj.studies) + Len(AssaysOf(inv_obj))

\* C7: main writes ISA-Tab when the tab flag is set (also with the json flag)
\* and ISA-JSON otherwise, never both; every filename of the investigation,
\* of each study and of each assay ends in 'txt' in tab mode and in 'json'
\* in JSON mode; in JSON mode one file is written for the investigation, one
\* per study and one per assay of each study.
TemplateWritesOneFilePerObject == OutputFormatByFlag /\ OneFilePerObject

\* Every run of the document has at most one assay per sensor of the setup
\* and at most one assay whose sensor is not a sensor of the setup.
SensorsDistinctInRuns ==
    \A k \in 1..Len(info.study_details) :
       \A r \in 1..Len(info.study_details[k].runs) :
          LET assays == info.study_details[k].runs[r].assay_details
              setup == info.study_details[k].used_setup
          IN  \A a, b \in 1..Len(assays) :
                 a # b => sensor_index(setup, assays[a].used_sensor)
                          # sensor_index(setup, assays[b].used_sensor)

\* For such documents every object has a file of its own.
OneFilePerObjectWhenSensorsDistinct ==
    (pc = "exit" /\ ~argv.tab /\ SensorsDistinctInRuns) =>
        Cardinality(FilesOnDisk) = 1 + Len(inv_obj.studies) + Len(AssaysOf(inv_obj))

\* C8: create_isa_data builds the investigation from the IsaPhmInfo: one
\* study per entry of study_details, in the same order, the study of entry i
\* with identifier 's<i>' and filename 's_study_s<i>.<ext>'; identifier,
\* title, description, dates and contacts copied from the info; exactly one
\* publication if the info has one and none otherwise.
InvestigationBuiltFromInfo ==
    Built =>
        /\ Len(inv_obj.studies) = Len(info.study_details)
        /\ \A i \in 1..Len(inv_obj.studies) :
              /\ inv_obj.studies[i].title = info.study_details[i].title
              /\ inv_obj.studies[i].identifier = <<"s">> \o pystr(i - 1)
              /\ inv_obj.studies[i].filename =
                    <<"s", "_", "s", "t", "u", "d", "y", "_", "s">> \o pystr(i - 1)
                    \o <<".">> \o (IF argv.tab THEN TXT ELSE JSON)
        /\ inv_obj.identifier = info.identifier
        /\ inv_obj.title = info.title
        /\ inv_obj.description = info.description
        /\ inv_obj.submission_date = info.submission_date
        /\ inv_obj.public_release_date = info.public_release_date
        /\ inv_obj.contacts = info.contacts
        /\ Len(inv_obj.publications) = (IF "publication" \in DOMAIN file THEN 1 ELSE 0)
        /\ inv_obj.publications = info.publication

\* Two studies with different titles and an investigation with a publication
\* and a contact have been built, with -t given.
InvestigationWitness ==
    /\ pc = "exit" /\ argv.tab
    /\ Len(inv_obj.studies) = 2
    /\ inv_obj.studies[1].title # inv_obj.studies[2].title
    /\ inv_obj.studies[2].identifier = <<"s", "1">>
    /\ Len(inv_obj.publications) = 1
    /\ inv_obj.contacts # <<>>

\* C9: add_test_setup creates one sample per run: the study has exactly one
\* source and exactly len(runs) samples, and sample i carries the run
\* conditions of run i, and of no other run, appended to its factor values.
OneSamplePerRun ==
    pc \in {"studies", "output", "exit"} =>
        \A k \in 1..Len(inv_obj.studies) :
           LET study == inv_obj.studies[k]
               runs == info.study_details[k].runs
               own == IF info.study_details[k].experiment_type # "Diagnostic"
                      THEN 3 ELSE 0
           IN  /\ Len(study.sources) = 1
               /\ Len(study.samples) = Len(runs)
               /\ \A i \in 1..Len(runs) :
                     LET values == study.samples[i].factor_values
                     IN  /\ Len(values) = own + Len(runs[i].run_conditions)
                         /\ SubSeq(values, own + 1, Len(values)) = runs[i].run_conditions
                         /\ \A j \in 1..Len(runs) : \A c \in 1..Len(runs[j].run_conditions) :
                               j # i => \A v \in 1..Len(values) :
                                           values[v] # runs[j].run_conditions[c]

\* A study of two runs with different run conditions has its two samples,
\* each with the fault factors and the conditions of its run.
SamplesWitness ==
    /\ pc = "exit"
    /\ \E k \in 1..Len(inv_obj.studies) :
          /\ Len(info.study_details[k].runs) = 2
          /\ info.study_details[k].runs[1].run_conditions
                # info.study_details[k].runs[2].run_conditions
          /\ Len(inv_obj.studies[k].samples) = 2
          /\ Len(inv_obj.studies[k].samples[1].factor_values) = 4
          /\ Len(inv_obj.studies[k].samples[2].factor_values) = 5

\* ------------------------------------------------------ contacts over time

\* The contacts experiment i of study_objects is written with, were the
\* document saved now.
ContactsWritten(i) == study_json(study_objects[i]).contacts

\* A step leaves the contacts of every experiment described before it as
\* they were.
ExperimentContactsStep ==
    \A i \in 1..Len(study_objects) :
       i <= Len(study_objects') => ContactsWritten(i)' = ContactsWritten(i)

\* A step leaves the contacts of the investigation, once described, as they
\* were.
InvestigationContactsStep ==
    pc # "describe_investigation" => isa_phm_info'.contacts = isa_phm_info.contacts

\* The contacts of the investigation are fixed when it is described, and
\* experiment.json holds them.
InvestigationContactsFixed ==
    /\ [][InvestigationContactsStep]_vars
    /\ [](written # <<>> => written[1].contacts = JList(isa_phm_info.contacts))

\* C11: the contacts recorded for an experiment are fixed when that
\* experiment is described: contacts added afterwards, while a later
\* experiment is described, appear neither in the contacts of an earlier
\* experiment in the written experiment.json nor in the investigation's
\* contacts.
ContactsFixedWhenDescribed ==
    /\ [][ExperimentContactsStep /\ InvestigationContactsStep]_vars
    /\ [](written # <<>> =>
            /\ written[1].contacts = JList(isa_phm_info.contacts)
            /\ \A i \in 1..Len(study_objects) :
                  written[1].study_details[i].contacts = ContactsWritten(i))

\* experiment.json with a first experiment whose contacts were confirmed and
\* that lists a contact entered for the second experiment: more contacts
\* than the investigation has.
LaterContactWritten ==
    /\ pc = "done"
    /\ Len(study_objects) = 2
    /\ study_objects[1].contacts = "PERSONS"
    /\ Len(written[1].study_details[1].contacts.items) > Len(written[1].contacts.items)

====
